---------------------------- MODULE Spec2Model ----------------------------
(***************************************************************************)
(* Model of xiaomi_unlock.core: the target-time calculator, the response   *)
(* classifiers, the worker state machine (run_worker) and the coordinator  *)
(* (run_workers).                                                          *)
(*                                                                         *)
(* Time is the synced Beijing time in milliseconds since a Beijing         *)
(* midnight (instant 0).  Asia/Shanghai has no daylight saving, so every   *)
(* calendar day is DayMs long and cur.replace(hour=0, ...) is the largest  *)
(* multiple of DayMs that is <= cur.                                       *)
(*                                                                         *)
(* run_worker is an asyncio coroutine: the code between two awaits runs    *)
(* without interleaving, so each action below is one such segment, and     *)
(* the clock readings of one segment are one instant (now).  The sleeps    *)
(* are yield points of any length: the clock (Tick) advances between       *)
(* segments by any amount, so a sleep may overshoot target or deadline.    *)
(***************************************************************************)
EXTENDS Integers, Sequences, FiniteSets, TLC

\* ---- program constants ---------------------------------------------------
MAX_RETRY_SECS == 30
MsPerSec == 1000
DayMs == 86400000
CoarseWaitSecs == 2
TIME_OFFSETS_MS == <<1400, 900, 400, 100>>

RetryWindowMs == MAX_RETRY_SECS * MsPerSec

\* the two endpoints (by the last part of their paths) and the app version
APPLY_URL == "apply/bl-auth"
STATUS_URL == "user/bl-switch/state"
APP_VER == "500411"
APP_VER_NAME == "5.4.11"

\* the cookie string, as the sequence of its pieces
build_cookie(token, dev_id) ==
    <<"new_bbs_serviceToken=", token, ";versionCode=", APP_VER,
      ";versionName=", APP_VER_NAME, ";deviceId=", dev_id, ";">>

\* ---- bounds ----------------------------------------------------------------
MaxDay == 1
MaxRequests == 2
MaxServers == 3
MaxRunRequests == 4
MaxMono == 6
MaxPad == 2

\* ---- calc_target_time ----------------------------------------------------
\* cur.replace(hour=0, minute=0, second=0, microsecond=0)
TodayMidnight(cur) == cur - (cur % DayMs)

\* calc_midnight with <= for < (30 s past midnight still today's)
calc_midnight_mut(cur) ==
    IF cur - TodayMidnight(cur) <= RetryWindowMs
    THEN TodayMidnight(cur)
    ELSE TodayMidnight(cur) + DayMs

\* the midnight calc_target_time selects (lines 122-129)
calc_midnight(cur) ==
    IF cur - TodayMidnight(cur) < RetryWindowMs
    THEN TodayMidnight(cur)
    ELSE TodayMidnight(cur) + DayMs

\* calc_target_time taking today's midnight whatever the time
calc_target_time_today(cur, offset_ms) ==
    [target   |-> TodayMidnight(cur) - offset_ms,
     deadline |-> TodayMidnight(cur) + RetryWindowMs]

calc_target_time(cur, offset_ms) ==
    [target   |-> calc_midnight(cur) - offset_ms,
     deadline |-> calc_midnight(cur) + RetryWindowMs]


\* ---- JSON values ---------------------------------------------------------
\* A JSON object is a function from its keys (strings) to JSON values, a
\* number is I(n), a string is S(x), null (Python None) is Null.
Null == [t |-> "null"]
I(n) == [t |-> "int", v |-> n]
S(x) == [t |-> "str", v |-> x]
EmptyDict == << >>
IsDict(x) == "t" \notin DOMAIN x

\* dict.get(key, default)
Get(d, k, default) == IF k \in DOMAIN d THEN d[k] ELSE default

\* f"{v}" of a JSON scalar
Fmt(v) == IF v = Null THEN "None"
          ELSE IF v.t = "int" THEN ToString(v.v) ELSE v.v

\* A message is the sequence of its pieces (the dash of the source's texts
\* is written -); `piece in message` of the source
\* is membership of the piece.
Contains(msg, piece) == \E i \in 1..Len(msg) : msg[i] = piece

\* str.lower() of a piece (the pieces that begin with a capital)
Lower(piece) ==
    CASE piece = "Quota" -> "quota"
      [] piece = "Blocked" -> "blocked"
      [] piece = "Unknown status" -> "unknown status"
      [] piece = "Unexpected response" -> "unexpected response"
      [] OTHER -> piece
\* `word in message.lower()`
ContainsLower(msg, word) == \E i \in 1..Len(msg) : Lower(msg[i]) = word

\* ---- typed results -------------------------------------------------------
\* approved is "True", "False" or "None" (bool | None of the source)
ApplyResult(wid, approved, attempts, message, raw) ==
    [worker_id |-> wid, approved |-> approved, attempts |-> attempts,
     message |-> message, raw |-> raw]

StatusResult(eligible, message, raw) ==
    [eligible |-> eligible, message |-> message, raw |-> raw]

Return(v) == [kind |-> "return", val |-> v]
Raise(exc) == [kind |-> "raise", exc |-> exc]

\* ---- parse_status_response -----------------------------------------------
\* lines 187-218, for info a dict
status_info(info, data) ==
    LET is_pass  == Get(info, "is_pass", Null)
        btn      == Get(info, "button_state", Null)
        deadline == Fmt(Get(info, "deadline_format", S("")))
    IN  IF is_pass = I(1)
        THEN Return(StatusResult(FALSE,
                 <<"Already approved", " - unlock available until ", deadline>>, data))
        ELSE IF is_pass = I(4) /\ btn = I(1)
        THEN Return(StatusResult(TRUE, <<"Eligible to send unlock request">>, data))
        ELSE IF is_pass = I(4) /\ btn = I(2)
        THEN Return(StatusResult(TRUE,
                 <<"Blocked until ", deadline, " - will try anyway">>, data))
        ELSE IF is_pass = I(4) /\ btn = I(3)
        THEN Return(StatusResult(TRUE,
                 <<"Account < 30 days old - will try anyway">>, data))
        ELSE Return(StatusResult(FALSE,
                 <<"Unknown status", ": is_pass=", Fmt(is_pass),
                   ", button_state=", Fmt(btn)>>, data))

\* parse_status_response without the test of the expired-token code
parse_status_response_nocode(data) ==
    IF ~IsDict(data) THEN Raise("AttributeError")
    ELSE LET info == Get(data, "data", EmptyDict)
         IN  IF ~IsDict(info) THEN Raise("AttributeError")
             ELSE status_info(info, data)

parse_status_response(data) ==
    IF ~IsDict(data) THEN Raise("AttributeError")
    ELSE IF Get(data, "code", Null) = I(100004)
    THEN Return(StatusResult(FALSE,
             <<"Token ", "expired", " - get a fresh one.">>, data))
    ELSE LET info == Get(data, "data", EmptyDict)
         IN  IF ~IsDict(info) THEN Raise("AttributeError")
             ELSE status_info(info, data)

\* ---- sync_ntp ------------------------------------------------------------
NTP_SERVERS ==
    <<"time.apple.com", "time.google.com", "ntp.aliyun.com", "pool.ntp.org",
      "ntp0.ntp-servers.net", "ntp1.ntp-servers.net">>

NtpResult(success, beijing_time, server, error) ==
    [success |-> success, beijing_time |-> beijing_time, server |-> server,
     error |-> error]

\* datetime.fromtimestamp(tx_time, tz=utc).astimezone(BEIJING_TZ): the same
\* instant, in the zone of Beijing
ToBeijing(tx_time) == [instant |-> tx_time, tz |-> "Asia/Shanghai"]

\* last_err before its first assignment
Unbound == "<unbound>"

\* ntp_loop returning the last server that answers
RECURSIVE ntp_loop_lastwins(_, _, _, _, _)
ntp_loop_lastwins(servers, answers, i, last_err, queried) ==
    IF i > Len(servers)
    THEN [result |-> NtpResult(FALSE, Null, "",
                        IF Len(servers) > 0 THEN last_err
                        ELSE "No NTP servers configured"),
          queried |-> queried]
    ELSE IF answers[i].ok /\ \A j \in (i + 1)..Len(servers) : ~answers[j].ok
    THEN [result |-> NtpResult(TRUE, ToBeijing(answers[i].tx_time), servers[i], ""),
          queried |-> queried \o SubSeq(servers, i, Len(servers))]
    ELSE ntp_loop_lastwins(servers, answers, i + 1,
                           IF answers[i].ok THEN last_err ELSE answers[i].text,
                           Append(queried, servers[i]))

\* ntp_loop keeping the first error
RECURSIVE ntp_loop_firsterr(_, _, _, _, _)
ntp_loop_firsterr(servers, answers, i, last_err, queried) ==
    IF i > Len(servers)
    THEN [result |-> NtpResult(FALSE, Null, "",
                        IF Len(servers) > 0 THEN last_err
                        ELSE "No NTP servers configured"),
          queried |-> queried]
    ELSE IF answers[i].ok
    THEN [result |-> NtpResult(TRUE, ToBeijing(answers[i].tx_time), servers[i], ""),
          queried |-> Append(queried, servers[i])]
    ELSE ntp_loop_firsterr(servers, answers, i + 1,
                           IF last_err = Unbound THEN answers[i].text ELSE last_err,
                           Append(queried, servers[i]))

\* lines 139-146: the loop from server i on.  answers[i] is what
\* client.request gives for the i-th server: a response with its tx_time,
\* or an exception with its text (str(e)); queried lists the servers asked.
RECURSIVE ntp_loop(_, _, _, _, _)
ntp_loop(servers, answers, i, last_err, queried) ==
    IF i > Len(servers)
    THEN [result |-> NtpResult(FALSE, Null, "",
                        IF Len(servers) > 0 THEN last_err
                        ELSE "No NTP servers configured"),
          queried |-> queried]
    ELSE IF answers[i].ok
    THEN [result |-> NtpResult(TRUE, ToBeijing(answers[i].tx_time), servers[i], ""),
          queried |-> Append(queried, servers[i])]
    ELSE ntp_loop(servers, answers, i + 1, answers[i].text,
                  Append(queried, servers[i]))

sync_ntp(servers, answers) == ntp_loop(servers, answers, 1, Unbound, << >>)

\* ---- check_status --------------------------------------------------------
\* lines 163-172: r is what client.get and r.json() gave, a JSON body or an
\* exception; parse_status_response is called outside the try
check_status(r) ==
    IF r.kind # "json"
    THEN Return(StatusResult(FALSE, <<"Network error", ": ", r.kind>>, EmptyDict))
    ELSE parse_status_response(r.body)

\* ---- parse_apply_response ------------------------------------------------
\* apply_verdict with the apply_result tests outside the code == 0 test
apply_verdict_anycode(code, info) ==
    LET result == Get(info, "apply_result", Null)
        dl     == Fmt(Get(info, "deadline_format", S("?")))
    IN  IF result = I(1) THEN Return([msg |-> <<"Approved!">>, approved |-> "True"])
        ELSE IF result = I(3)
        THEN Return([msg |-> <<"Quota", " reached until ", dl>>, approved |-> "False"])
        ELSE IF result = I(4)
        THEN Return([msg |-> <<"Blocked", " until ", dl>>, approved |-> "False"])
        ELSE IF code = I(100001) THEN Raise("ValueError")
        ELSE IF code = I(100003)
        THEN Return([msg |-> <<"Possibly approved (100003)">>, approved |-> "None"])
        ELSE Return([msg |-> <<"Unexpected response", ": code=", Fmt(code)>>,
                     approved |-> "False"])

\* apply_verdict with the deadline left out of the messages
apply_verdict_nodl(code, info) ==
    LET result == Get(info, "apply_result", Null)
    IN  IF code = I(0) /\ result = I(1) THEN Return([msg |-> <<"Approved!">>, approved |-> "True"])
        ELSE IF code = I(0) /\ result = I(3)
        THEN Return([msg |-> <<"Quota", " reached">>, approved |-> "False"])
        ELSE IF code = I(0) /\ result = I(4)
        THEN Return([msg |-> <<"Blocked">>, approved |-> "False"])
        ELSE IF code = I(100001) THEN Raise("ValueError")
        ELSE IF code = I(100003)
        THEN Return([msg |-> <<"Possibly approved (100003)">>, approved |-> "None"])
        ELSE Return([msg |-> <<"Unexpected response", ": code=", Fmt(code)>>,
                     approved |-> "False"])

\* lines 232-250, for info a dict: (message, approved) or ValueError
apply_verdict(code, info) ==
    LET result == Get(info, "apply_result", Null)
        dl     == Fmt(Get(info, "deadline_format", S("?")))
    IN  IF code = I(0) /\ result = I(1) THEN Return([msg |-> <<"Approved!">>, approved |-> "True"])
        ELSE IF code = I(0) /\ result = I(3)
        THEN Return([msg |-> <<"Quota", " reached until ", dl>>, approved |-> "False"])
        ELSE IF code = I(0) /\ result = I(4)
        THEN Return([msg |-> <<"Blocked", " until ", dl>>, approved |-> "False"])
        ELSE IF code = I(100001) THEN Raise("ValueError")
        ELSE IF code = I(100003)
        THEN Return([msg |-> <<"Possibly approved (100003)">>, approved |-> "None"])
        ELSE Return([msg |-> <<"Unexpected response", ": code=", Fmt(code)>>,
                     approved |-> "False"])

parse_apply_response(data) ==
    IF ~IsDict(data) THEN Raise("AttributeError")
    ELSE LET code == Get(data, "code", Null)
             info == Get(data, "data", EmptyDict)
         IN  IF ~IsDict(info) THEN Raise("AttributeError")
             ELSE apply_verdict(code, info)


\* ---- state -----------------------------------------------------------------
VARIABLES
    now,        \* clock.synced_now(), ms
    stop,       \* the shared asyncio.Event: stop.is_set()
    main,       \* run_workers: "called", "gathering", "returned", "raised"
    tokens,     \* argument tokens = (firefox, chrome)
    offsets,    \* argument offsets
    dry_run,    \* argument dry_run
    on_attempt, \* argument on_attempt: "None", or what the callable does:
                \* "returns" or "raises"
    wk,         \* the dispatched run_worker coroutines, by worker id
    results,    \* the list run_workers returns
    fpc, fin, fout   \* a pure function under test, or the run command:
                     \* its step, its input, its output (locals)

raceVars == <<now, stop, main, tokens, offsets, dry_run, on_attempt, wk, results>>
fnVars == <<fpc, fin, fout>>
vars ==
    <<now, stop, main, tokens, offsets, dry_run, on_attempt, wk, results,
      fpc, fin, fout>>

NoResult == [t |-> "none"]

\* No pure function is under test / no race is running.
FnIdle == fpc = "idle" /\ fin = << >> /\ fout = << >>
RaceIdle ==
    /\ now = 0 /\ stop = FALSE /\ main = "idle" /\ tokens = << >>
    /\ offsets = << >> /\ dry_run = FALSE /\ on_attempt = "None"
    /\ wk = << >> /\ results = << >>

\* ---- run_worker ------------------------------------------------------------
\* A run_worker coroutine: its arguments, its locals, its position (pc) and
\* its returned ApplyResult.  pc is "init" (created, not yet run), "coarse"
\* (line 282), "spin" (line 286), "post" (line 318, apply request in
\* flight), "get" (line 338, status request in flight), "retry" (the sleeps
\* of lines 321, 328, 342, 356), "done" (returned) or "crashed" (an exception
\* left the coroutine).  msg, data and sdata are the locals of those names
\* while they are live.  posts, gets, fails, entry and last record what the
\* worker did: requests issued, apply attempts that ended in a transport
\* failure, an unparsable body or a 100001 rejection, what the first
\* evaluation of the loop condition of line 310 saw, and the last response;
\* reqs is the set of requests sent, each by its endpoint and Cookie header.
NewWorker(wid, token, offset_ms, dev_id) ==
    [wid |-> wid, token |-> token, offset_ms |-> offset_ms, dev |-> dev_id,
     pc |-> "init", target |-> 0, deadline |-> 0, attempt |-> 0,
     msg |-> << >>, data |-> EmptyDict, sdata |-> EmptyDict,
     result |-> NoResult,
     posts |-> 0, gets |-> 0, fails |-> 0, entry |-> "none", last |-> "none",
     reqs |-> {}, http |-> Null, calls |-> << >>, left |-> Null]

Step(w, set) == [w |-> w, set |-> set]

Finish(s, res) ==
    [s EXCEPT !.pc = "done", !.result = res, !.msg = << >>, !.data = EmptyDict]

\* the two tests of line 310 as they stand when the loop is left
Leaving(s) == [s EXCEPT !.left = [stop |-> stop, late |-> now >= s.deadline]]

\* LoopExit testing the deadline before the stop signal
LoopExit_deadline_first(s) ==
    IF now >= s.deadline
    THEN Finish(Leaving(s), ApplyResult(s.wid, "False", s.attempt,
                    <<"Timed out", " after ", ToString(MAX_RETRY_SECS), "s">>,
                    EmptyDict))
    ELSE Finish(Leaving(s), ApplyResult(s.wid, "None", s.attempt,
                    <<"Stopped (another worker succeeded)">>, EmptyDict))

\* lines 358-366: the loop condition of line 310 was false
LoopExit(s) ==
    IF stop
    THEN Finish(Leaving(s), ApplyResult(s.wid, "None", s.attempt,
                    <<"Stopped (another worker succeeded)">>, EmptyDict))
    ELSE Finish(Leaving(s), ApplyResult(s.wid, "False", s.attempt,
                    <<"Timed out", " after ", ToString(MAX_RETRY_SECS), "s">>,
                    EmptyDict))

\* lines 311-318: one more attempt, the apply request is sent with the
\* headers of lines 296-302
Fire(s) ==
    [s EXCEPT !.pc = "post", !.attempt = @ + 1, !.posts = @ + 1,
              !.last = "none",
              !.reqs = @ \cup {[url |-> APPLY_URL,
                                cookie |-> build_cookie(s.token, s.dev)]}]

\* LoopHead without the stop test
LoopHead_nostop(s) ==
    IF now < s.deadline
    THEN Fire(s)
    ELSE LoopExit([s EXCEPT !.last = "none"])

\* LoopHead with <= for < (fires at the deadline itself)
LoopHead_le(s) ==
    IF now <= s.deadline /\ ~stop
    THEN Fire(s)
    ELSE LoopExit([s EXCEPT !.last = "none"])

\* lines 311-315: the observer, when there is one, is called with the
\* worker's id and the attempt's number (calls lists the calls made)
Observed(s) ==
    IF on_attempt = "None" THEN s
    ELSE [s EXCEPT !.calls = Append(@, <<s.wid, s.attempt + 1>>)]

\* LoopHead calling the observer for the first attempt only
LoopHead_firstcall(s) ==
    IF now < s.deadline /\ ~stop
    THEN IF on_attempt = "raises"
         THEN [Observed(s) EXCEPT !.pc = "crashed", !.attempt = @ + 1,
                                  !.last = "ObserverError"]
         ELSE Fire(IF s.attempt = 0 THEN Observed(s) ELSE s)
    ELSE LoopExit([s EXCEPT !.last = "none"])

\* lines 310-318: the loop condition; the observer, when there is one, is
\* called before the request, and what it raises leaves run_worker
LoopHead(s) ==
    IF now < s.deadline /\ ~stop
    THEN IF on_attempt = "raises"
         THEN [Observed(s) EXCEPT !.pc = "crashed", !.attempt = @ + 1,
                                  !.last = "ObserverError"]
         ELSE Fire(Observed(s))
    ELSE LoopExit([s EXCEPT !.last = "none"])

\* AfterSpin without the dry-run test
AfterSpin_nodry(s) ==
    LoopHead([s EXCEPT !.entry = IF stop THEN "stopped"
                                 ELSE IF now >= s.deadline THEN "late"
                                 ELSE "open"])

\* lines 288-309: after the spin-wait
AfterSpin(s) ==
    IF dry_run
    THEN Finish(s, ApplyResult(s.wid, "None", 0,
                    <<"[", "dry-run", "] ", "Skipped", " POST">>, EmptyDict))
    ELSE LoopHead([s EXCEPT !.entry = IF stop THEN "stopped"
                                      ELSE IF now >= s.deadline THEN "late"
                                      ELSE "open"])

\* lines 285-286: the spin-wait's condition
SpinCheck(s) ==
    IF now < s.target THEN [s EXCEPT !.pc = "spin"] ELSE AfterSpin(s)

\* lines 276-282
StartWorker(s) ==
    LET tt == calc_target_time(now, s.offset_ms)
        s1 == [s EXCEPT !.target = tt.target, !.deadline = tt.deadline]
        wait == tt.target - now
    IN  IF wait > CoarseWaitSecs * MsPerSec
        THEN [s1 EXCEPT !.pc = "coarse"]
        ELSE SpinCheck(s1)

Sleep(s, why) ==
    [s EXCEPT !.pc = "retry", !.last = why, !.msg = << >>, !.data = EmptyDict]

\* RequestFailed returning a failure result, as check_status does (line 167)
RequestFailed_aborts(s) ==
    Step([Finish(s, ApplyResult(s.wid, "False", s.attempt,
                     <<"Network error">>, EmptyDict))
             EXCEPT !.fails = @ + 1, !.last = "failure"], FALSE)

\* RequestFailed with the failed attempt not counted
RequestFailed_uncounted(s) ==
    Step(Sleep([s EXCEPT !.fails = @ + 1, !.attempt = @ - 1], "failure"), FALSE)

\* lines 320-322: the request raised, or its body is not JSON
RequestFailed(s) == Step(Sleep([s EXCEPT !.fails = @ + 1], "failure"), FALSE)

\* lines 326-329: parse_apply_response raised ValueError (100001)
RetryableRejection(s) ==
    Step(Sleep([s EXCEPT !.fails = @ + 1], "retryable"), FALSE)

\* any other exception of parse_apply_response leaves run_worker
Crash(s, exc) == Step([s EXCEPT !.pc = "crashed", !.last = exc], FALSE)

\* Approved without stop.set()
Approved_noset(s, msg, raw) ==
    Step([Finish(s, ApplyResult(s.wid, "True", s.attempt, msg, raw))
             EXCEPT !.last = "approved"], FALSE)

\* lines 331-333
Approved(s, msg, raw) ==
    Step([Finish(s, ApplyResult(s.wid, "True", s.attempt, msg, raw))
             EXCEPT !.last = "approved"], TRUE)

\* Rejected with stop.set()
Rejected_sets_stop(s, msg, raw) ==
    Step([Finish(s, ApplyResult(s.wid, "False", s.attempt, msg, raw))
             EXCEPT !.last = "rejected"], TRUE)

\* lines 334-335
Rejected(s, msg, raw) ==
    Step([Finish(s, ApplyResult(s.wid, "False", s.attempt, msg, raw))
             EXCEPT !.last = "rejected"], FALSE)

\* lines 336-338: approved is None, the status request is sent
Uncertain(s, msg, raw) ==
    Step([s EXCEPT !.pc = "get", !.gets = @ + 1, !.msg = msg, !.data = raw,
                   !.last = "uncertain",
                   !.reqs = @ \cup {[url |-> STATUS_URL,
                                     cookie |-> build_cookie(s.token, s.dev)]}],
         FALSE)

\* OnApplyResponse dropping the response when the stop event is set or the
\* deadline has passed (a cancelled request)
OnApplyResponse_preempted(s, r) ==
    IF stop \/ now >= s.deadline THEN Step(LoopExit(s), FALSE)
    ELSE IF r.kind # "json" THEN RequestFailed(s)
    ELSE LET p == parse_apply_response(r.body)
         IN  IF p.kind = "raise"
             THEN IF p.exc = "ValueError" THEN RetryableRejection(s)
                  ELSE Crash(s, p.exc)
             ELSE IF p.val.approved = "True" THEN Approved(s, p.val.msg, r.body)
             ELSE IF p.val.approved = "False" THEN Rejected(s, p.val.msg, r.body)
             ELSE Uncertain(s, p.val.msg, r.body)

\* OnApplyResponse calling raise_for_status: an error status is a failed
\* request
OnApplyResponse_raise_for_status(s, r) ==
    IF r.kind # "json" \/ r.http >= 400 THEN RequestFailed(s)
    ELSE LET p == parse_apply_response(r.body)
         IN  IF p.kind = "raise"
             THEN IF p.exc = "ValueError" THEN RetryableRejection(s)
                  ELSE Crash(s, p.exc)
             ELSE IF p.val.approved = "True" THEN Approved(s, p.val.msg, r.body)
             ELSE IF p.val.approved = "False" THEN Rejected(s, p.val.msg, r.body)
             ELSE Uncertain(s, p.val.msg, r.body)

\* lines 317-338: the apply request's outcome r; of the response only
\* resp.json() is read
OnApplyResponse(s, r) ==
    IF r.kind # "json" THEN RequestFailed(s)
    ELSE LET p == parse_apply_response(r.body)
         IN  IF p.kind = "raise"
             THEN IF p.exc = "ValueError" THEN RetryableRejection(s)
                  ELSE Crash(s, p.exc)
             ELSE IF p.val.approved = "True" THEN Approved(s, p.val.msg, r.body)
             ELSE IF p.val.approved = "False" THEN Rejected(s, p.val.msg, r.body)
             ELSE Uncertain(s, p.val.msg, r.body)

\* lines 341-343: the status request raised, its body is not JSON, or
\* parse_status_response raised
VerifyFailed(s) == Step(Sleep(s, "verify_failure"), FALSE)

\* Ineligible taking every ineligible status as approved
Ineligible_any(s, st, sdata) ==
    Step([Finish(s, ApplyResult(s.wid, "True", s.attempt,
                     s.msg \o <<" -> ">> \o st.message, s.data))
             EXCEPT !.last = "ineligible", !.sdata = sdata],
         TRUE)

\* Ineligible setting the stop signal whatever the status says
Ineligible_stops(s, st, sdata) ==
    LET approved_final == Contains(st.message, "Already approved")
    IN  Step([Finish(s, ApplyResult(s.wid,
                         IF approved_final THEN "True" ELSE "None",
                         s.attempt,
                         s.msg \o <<" -> ">> \o st.message, s.data))
                 EXCEPT !.last = "ineligible", !.sdata = sdata],
             TRUE)

\* lines 344-355: the account is no longer eligible
Ineligible(s, st, sdata) ==
    LET approved_final == Contains(st.message, "Already approved")
    IN  Step([Finish(s, ApplyResult(s.wid,
                         IF approved_final THEN "True" ELSE "None",
                         s.attempt,
                         s.msg \o <<" -> ">> \o st.message, s.data))
                 EXCEPT !.last = "ineligible", !.sdata = sdata],
             approved_final)

\* StillEligible returning the uncertain verdict
StillEligible_ends(s) ==
    Step([Finish(s, ApplyResult(s.wid, "None", s.attempt, s.msg, s.data))
             EXCEPT !.last = "eligible"], FALSE)

\* line 356: still eligible
StillEligible(s) == Step(Sleep(s, "eligible"), FALSE)

\* lines 339-356: the status request's outcome r
OnStatusResponse(s, r) ==
    IF r.kind # "json" THEN VerifyFailed(s)
    ELSE LET p == parse_status_response(r.body)
         IN  IF p.kind = "raise" THEN VerifyFailed(s)
             ELSE IF ~p.val.eligible THEN Ineligible(s, p.val, r.body)
             ELSE StillEligible(s)

\* ---- the environment of a race ---------------------------------------------
\* The boundary is the midnight that ends day 0.  A race starts ten minutes
\* before it, at the first worker's target, or two seconds after it; the
\* clock is then read at the first and third default targets, at the
\* boundary and at the end of the retry window.
Boundary == DayMs
EarlyMs == 600000
LateMs == 2000
StartTimes == {Boundary - EarlyMs, Boundary - TIME_OFFSETS_MS[1], Boundary + LateMs}
RaceTimes ==
    {Boundary - TIME_OFFSETS_MS[1], Boundary - TIME_OFFSETS_MS[3], Boundary,
     Boundary + RetryWindowMs}

OffsetLists == {TIME_OFFSETS_MS, <<1400, 900>>}
TokenPairs == {<<"ff_tok", "ch_tok">>}
\* the same credential given twice (load_tokens does not compare the two)
SameTokenPairs == {<<"tok", "tok">>}
Observers == {"None", "returns", "raises"}
\* gen_device_id() twice: two draws, taken to differ (SHA-1 of a fresh random)
DevPairs == {<<"DEV1", "DEV2">>}

\* What the apply endpoint can answer: a transport failure, a body that is
\* not JSON, or a JSON body.
ApplyBodies ==
    {[code |-> I(0), data |-> [apply_result |-> I(1)]],
     [code |-> I(0), data |-> [apply_result |-> I(3), deadline_format |-> S("X")]],
     [code |-> I(0), data |-> [apply_result |-> I(4)]],
     [code |-> I(100001)],
     [code |-> I(100003)],
     [code |-> I(0)],
     [code |-> I(0), data |-> Null]}
StatusBodies ==
    {[code |-> I(0), data |-> [is_pass |-> I(1), deadline_format |-> S("D")]],
     [code |-> I(0), data |-> [is_pass |-> I(4), button_state |-> I(1)]],
     [code |-> I(0), data |-> [is_pass |-> I(2), button_state |-> I(1)]],
     [code |-> I(100004)],
     [code |-> I(0), data |-> Null]}
Failures == {[kind |-> "transport"], [kind |-> "badjson"]}
ApplyResponses == Failures \cup {[kind |-> "json", body |-> b] : b \in ApplyBodies}
StatusResponses == Failures \cup {[kind |-> "json", body |-> b] : b \in StatusBodies}
\* The answers met by a race that the run command started: one of each
\* kind of body the worker tells apart (approved, rejected, retryable,
\* uncertain, a null data field; then approved, still eligible, no answer).
RunApplyResponses ==
    {[kind |-> "json", body |-> b] :
        b \in {[code |-> I(0), data |-> [apply_result |-> I(1)]],
               [code |-> I(0), data |-> [apply_result |-> I(3), deadline_format |-> S("X")]],
               [code |-> I(100001)],
               [code |-> I(100003)],
               [code |-> I(0), data |-> Null]}}
RunStatusResponses ==
    {[kind |-> "json",
      body |-> [code |-> I(0), data |-> [is_pass |-> I(1), deadline_format |-> S("D")]]],
     [kind |-> "json",
      body |-> [code |-> I(0), data |-> [is_pass |-> I(4), button_state |-> I(1)]]],
     [kind |-> "transport"]}
ApplyAnswers == IF fpc = "run_race" THEN RunApplyResponses ELSE ApplyResponses
StatusAnswers == IF fpc = "run_race" THEN RunStatusResponses ELSE StatusResponses
\* An HTTP response has a status code; the race "http" meets error statuses
\* too, the others the status 200.
HttpStatuses == {200, 500}
HttpCodes == IF fpc = "http" THEN HttpStatuses ELSE {200}
Served(r, code) == IF r.kind = "transport" THEN r ELSE [http |-> code] @@ r
\* the worker record after a response, the status seen noted in it
Noted(t, r) == IF r.kind = "transport" THEN t ELSE [t EXCEPT !.http = I(r.http)]

Workers == DOMAIN wk

RECURSIVE SumPosts(_)
SumPosts(n) == IF n = 0 THEN 0 ELSE wk[n].posts + SumPosts(n - 1)
\* apply requests issued so far in the race
Sent == SumPosts(Len(wk))

\* The model stops issuing apply requests after MaxRequests of them
\* (MaxRunRequests under the run command, whose workers all fire at once):
\* a worker about to issue one more stays asleep instead.
RequestBudget == IF fpc = "run_race" THEN MaxRunRequests ELSE MaxRequests
Allowed(s, t) == t.posts > s.posts => Sent < RequestBudget

\* ---- run_workers -----------------------------------------------------------
WorkerCount == 4
Min(a, b) == IF a < b THEN a ELSE b

\* lines 385-395: token_list, dev_ids, stop and the zip of line 394
Dispatch ==
    /\ main = "called"
    /\ \E devs \in DevPairs :
         LET token_list == <<tokens[1], tokens[2], tokens[1], tokens[2]>>
             dev_ids == <<devs[1], devs[2], devs[1], devs[2]>>
         IN  wk' = [i \in 1..Min(WorkerCount, Len(offsets)) |->
                       NewWorker(i, token_list[i], offsets[i], dev_ids[i])]
    /\ stop' = FALSE
    /\ main' = "gathering"
    /\ UNCHANGED <<now, tokens, offsets, dry_run, on_attempt, results, fnVars>>

\* asyncio runs the first segment of every coroutine gather was given, in
\* the order given, before it polls for any I/O or timer: no response
\* arrives, no sleep ends and (in the model) no time passes before that.
Started == \A w \in Workers : wk[w].pc # "init"

\* WorkerStep assigning the flag instead of setting it
WorkerStep_assign(w, t, set) ==
    /\ main = "gathering"
    /\ Allowed(wk[w], t)
    /\ wk' = [wk EXCEPT ![w] = t]
    /\ stop' = set
    /\ UNCHANGED <<now, main, tokens, offsets, dry_run, on_attempt, results, fnVars>>

\* a step of worker w to the record t, setting the stop event when set holds
\* (after gather has raised, asyncio.run cancels the workers still running)
WorkerStep(w, t, set) ==
    /\ main = "gathering"
    /\ Allowed(wk[w], t)
    /\ wk' = [wk EXCEPT ![w] = t]
    /\ stop' = (stop \/ set)
    /\ UNCHANGED <<now, main, tokens, offsets, dry_run, on_attempt, results, fnVars>>

Start(w) ==
    /\ wk[w].pc = "init"
    /\ \A v \in Workers : v < w => wk[v].pc # "init"
    /\ WorkerStep(w, StartWorker(wk[w]), FALSE)

Wake(w) ==
    /\ Started
    /\ wk[w].pc \in {"coarse", "spin"}
    /\ WorkerStep(w, SpinCheck(wk[w]), FALSE)

Retry(w) ==
    /\ Started
    /\ wk[w].pc = "retry"
    /\ WorkerStep(w, LoopHead(wk[w]), FALSE)

ApplyResponse(w) ==
    /\ Started
    /\ wk[w].pc = "post"
    /\ \E a \in ApplyAnswers, code \in HttpCodes :
         LET r == Served(a, code)
             st == OnApplyResponse(wk[w], r)
         IN  WorkerStep(w, Noted(st.w, r), st.set)

StatusResponse(w) ==
    /\ Started
    /\ wk[w].pc = "get"
    /\ \E a \in StatusAnswers, code \in HttpCodes :
         LET r == Served(a, code)
             st == OnStatusResponse(wk[w], r)
         IN  WorkerStep(w, Noted(st.w, r), st.set)

\* GatherReturn returning as soon as one worker has returned, with the
\* results there are
GatherReturn_first ==
    /\ main = "gathering"
    /\ \E w \in Workers : wk[w].pc = "done"
    /\ results' = SelectSeq([i \in 1..Len(wk) |-> wk[i].result],
                            LAMBDA res : res # NoResult)
    /\ main' = "returned"
    /\ UNCHANGED <<now, stop, tokens, offsets, dry_run, on_attempt, wk, fnVars>>

\* line 396-397: asyncio.gather returns the results in worker order
GatherReturn ==
    /\ main = "gathering"
    /\ \A w \in Workers : wk[w].pc = "done"
    /\ results' = [i \in 1..Len(wk) |-> wk[i].result]
    /\ main' = "returned"
    /\ UNCHANGED <<now, stop, tokens, offsets, dry_run, on_attempt, wk, fnVars>>

\* line 396: asyncio.gather raises what a worker raised
GatherRaise ==
    /\ main = "gathering"
    /\ \E w \in Workers : wk[w].pc = "crashed"
    /\ main' = "raised"
    /\ UNCHANGED <<now, stop, tokens, offsets, dry_run, on_attempt, wk, results, fnVars>>

\* synced time advances
Tick ==
    /\ main = "gathering"
    /\ Started
    /\ \E t \in RaceTimes : t > now /\ now' = t
    /\ UNCHANGED <<stop, main, tokens, offsets, dry_run, on_attempt, wk, results, fnVars>>

\* run_workers is called.  A race that starts after the boundary fires
\* every worker in its first segment, so it is given no more offsets than
\* the model issues requests.
InitRace(starts, toks, offs, drys, obs) ==
    /\ now \in starts
    /\ stop = FALSE
    /\ main = "called"
    /\ tokens \in toks
    /\ offsets \in offs
    /\ now >= Boundary => Len(offsets) <= MaxRequests
    /\ dry_run \in drys
    /\ on_attempt \in obs
    /\ wk = << >>
    /\ results = << >>
    /\ FnIdle

\* two different credentials, no observer
Init == InitRace(StartTimes, TokenPairs, OffsetLists, BOOLEAN, {"None"})

Next ==
    \/ Dispatch
    \/ \E w \in Workers : Start(w)
    \/ \E w \in Workers : Wake(w)
    \/ \E w \in Workers : Retry(w)
    \/ \E w \in Workers : ApplyResponse(w)
    \/ \E w \in Workers : StatusResponse(w)
    \/ GatherReturn
    \/ GatherRaise
    \/ Tick

Spec == Init /\ [][Next]_vars

\* The race under the event loop's scheduling: a task that can run does
\* run, a request gets its response or its failure (the client's timeouts),
\* and synced time advances.
WorkerRuns(w) ==
    /\ w \in Workers
    /\ Start(w) \/ Wake(w) \/ Retry(w) \/ ApplyResponse(w) \/ StatusResponse(w)
Fairness ==
    /\ WF_vars(Dispatch)
    /\ \A w \in 1..WorkerCount : WF_vars(WorkerRuns(w))
    /\ WF_vars(GatherReturn \/ GatherRaise)
    /\ WF_vars(Tick)
SpecLive == Spec /\ Fairness

\* The race of the default offsets started at the first worker's target,
\* with equal credentials and with an observer among the arguments.
InitArgs ==
    InitRace({Boundary - TIME_OFFSETS_MS[1]}, TokenPairs \cup SameTokenPairs,
             {TIME_OFFSETS_MS}, {FALSE}, Observers)

SpecArgs == InitArgs /\ [][Next]_vars

\* A race of the first three default offsets started at the first
\* worker's target, whose responses carry any of the HTTP statuses.
InitHttp ==
    /\ now = Boundary - TIME_OFFSETS_MS[1]
    /\ stop = FALSE
    /\ main = "called"
    /\ tokens \in TokenPairs
    /\ offsets = SubSeq(TIME_OFFSETS_MS, 1, 3)
    /\ dry_run = FALSE
    /\ on_attempt = "None"
    /\ wk = << >>
    /\ results = << >>
    /\ fpc = "http" /\ fin = << >> /\ fout = << >>

SpecHttp == InitHttp /\ [][Next]_vars


\* ---- the run command (cli.run) ----------------------------------------------
\* countdown_display (ui.py 56-100) measures the remaining time, sleeps one
\* period and only then tests the measured value against the threshold:
\* it returns one period after the first measurement at or below the
\* threshold, that is in [midnight - threshold + period, midnight -
\* threshold + 2 * period).
PlainThresholdMs == 1000
PlainSleepMs == 1000
RichThresholdMs == 500
RichSleepMs == 500
CountdownSkipSecs == 5

CountdownEnds(midnight, plain) ==
    LET threshold == IF plain THEN PlainThresholdMs ELSE RichThresholdMs
        period == IF plain THEN PlainSleepMs ELSE RichSleepMs
    IN  {midnight - threshold + period, midnight - threshold + 2 * period - 1}

\* What the run command meets: the token file, the answer to the
\* eligibility check, the answers of the NTP servers, and its flags.
EligibilityResponses ==
    {[kind |-> "json",
      body |-> [code |-> I(0), data |-> [is_pass |-> I(4), button_state |-> I(1)]]],
     [kind |-> "json", body |-> [code |-> I(0), data |-> [is_pass |-> I(1)]]],
     [kind |-> "json", body |-> [code |-> I(0), data |-> Null]],
     [kind |-> "transport"]}
\* the synced time is anchored ten minutes before the boundary, or so
\* close to it that the countdown is skipped
AnchorTimes == {Boundary - EarlyMs, Boundary - TIME_OFFSETS_MS[3]}
NtpRunFail == [i \in 1..Len(NTP_SERVERS) |-> [ok |-> FALSE, text |-> "timeout"]]
NtpRunOk(t) ==
    [i \in 1..Len(NTP_SERVERS) |->
        IF i = 2 THEN [ok |-> TRUE, tx_time |-> t]
        ELSE [ok |-> FALSE, text |-> "timeout"]]
NtpRuns == {NtpRunFail} \cup {NtpRunOk(t) : t \in AnchorTimes}

RunState(exit, anchored, midnight, error) ==
    [exit |-> exit, anchored |-> anchored, midnight |-> midnight, error |-> error,
     countdown |-> FALSE]

\* A run that sends requests is followed in plain mode from the early
\* anchor; a dry run from every input.
RunInputs ==
    {r \in [tokenfile : {"ok", "error"}, tokens : TokenPairs,
            status : EligibilityResponses, ntp : NtpRuns,
            dry_run : BOOLEAN, plain : BOOLEAN] :
        ~r.dry_run => r.plain /\ r.ntp # NtpRunOk(Boundary - TIME_OFFSETS_MS[3])}

InitRun ==
    /\ RaceIdle
    /\ fpc = "run"
    /\ fin \in RunInputs
    /\ fout = RunState(Null, FALSE, 0, "")

\* sys.exit(code), or an exception that leaves run (exit status 1)
RunExits(code, error) ==
    /\ fpc' = "exited"
    /\ fout' = [fout EXCEPT !.exit = I(code), !.error = error]

\* cli.py 115-122
RunLoadTokens ==
    /\ fpc = "run"
    /\ IF fin.tokenfile = "error" THEN RunExits(1, "")
       ELSE fpc' = "run_status" /\ fout' = fout
    /\ UNCHANGED <<fin, raceVars>>

\* cli.py 125-131
RunCheckStatus ==
    /\ fpc = "run_status"
    /\ LET r == check_status(fin.status)
       IN  IF r.kind = "raise" THEN RunExits(1, r.exc)
           ELSE IF ~r.val.eligible THEN RunExits(1, "")
           ELSE fpc' = "run_ntp" /\ fout' = fout
    /\ UNCHANGED <<fin, raceVars>>

\* RunSyncNtp going on with the unsynced local time when every server fails
RunSyncNtp_proceeds ==
    /\ fpc = "run_ntp"
    /\ LET ntp_result == sync_ntp(NTP_SERVERS, fin.ntp).result
           cur == IF ntp_result.success THEN ntp_result.beijing_time.instant
                  ELSE Boundary - EarlyMs
           midnight == TodayMidnight(cur + DayMs)
       IN  /\ now' = cur
           /\ fout' = [fout EXCEPT !.anchored = ntp_result.success,
                                   !.midnight = midnight]
           /\ fpc' = IF midnight - cur > CountdownSkipSecs * MsPerSec
                     THEN "run_countdown" ELSE "run_workers"
    /\ UNCHANGED <<stop, main, tokens, offsets, dry_run, on_attempt, wk, results, fin>>

\* cli.py 133-156: the NTP sync, the clock anchored on its time, the
\* midnight to come and the time left until it
RunSyncNtp ==
    /\ fpc = "run_ntp"
    /\ LET ntp_result == sync_ntp(NTP_SERVERS, fin.ntp).result
       IN  IF ~ntp_result.success
           THEN RunExits(1, "") /\ now' = now
           ELSE LET cur == ntp_result.beijing_time.instant
                    midnight == TodayMidnight(cur + DayMs)
                IN  /\ now' = cur
                    /\ fout' = [fout EXCEPT !.anchored = TRUE,
                                            !.midnight = midnight]
                    /\ fpc' = IF midnight - cur > CountdownSkipSecs * MsPerSec
                              THEN "run_countdown" ELSE "run_workers"
    /\ UNCHANGED <<stop, main, tokens, offsets, dry_run, on_attempt, wk, results, fin>>

\* cli.py 157: asyncio.run(countdown_display(...))
RunCountdown ==
    /\ fpc = "run_countdown"
    /\ now' \in CountdownEnds(fout.midnight, fin.plain)
    /\ fpc' = "run_workers"
    /\ fout' = [fout EXCEPT !.countdown = TRUE]
    /\ UNCHANGED <<stop, main, tokens, offsets, dry_run, on_attempt, wk, results,
                   fin>>

\* cli.py 165-209: run_workers is called with the default offsets and the
\* table-updating observer
RunWorkers ==
    /\ fpc = "run_workers"
    /\ main' = "called"
    /\ tokens' = fin.tokens
    /\ offsets' = TIME_OFFSETS_MS
    /\ dry_run' = fin.dry_run
    /\ on_attempt' = "returns"
    /\ fpc' = "run_race"
    /\ UNCHANGED <<now, stop, wk, results, fin, fout>>

\* cli.py 211-216
RunExit ==
    /\ fpc = "run_race"
    /\ main = "returned"
    /\ LET approved == \E i \in DOMAIN results : results[i].approved = "True"
       IN  RunExits(IF approved THEN 0 ELSE 1, "")
    /\ UNCHANGED <<fin, raceVars>>

\* what run_workers raised leaves asyncio.run and run
RunCrash ==
    /\ fpc = "run_race"
    /\ main = "raised"
    /\ \E w \in Workers : wk[w].pc = "crashed" /\ RunExits(1, wk[w].last)
    /\ UNCHANGED <<fin, raceVars>>

NextRun ==
    \/ RunLoadTokens
    \/ RunCheckStatus
    \/ RunSyncNtp
    \/ RunCountdown
    \/ RunWorkers
    \/ Next
    \/ RunExit
    \/ RunCrash

SpecRun == InitRun /\ [][NextRun]_vars

\* ---- calc_target_time under test -------------------------------------------
\* now is ms milliseconds into day `day`
MsSamples ==
    {0, 1, LateMs, RetryWindowMs - 1, RetryWindowMs, RetryWindowMs + 1,
     DayMs - EarlyMs, DayMs - TIME_OFFSETS_MS[1], DayMs - 1}
OffsetSamples == {0} \cup {TIME_OFFSETS_MS[i] : i \in 1..Len(TIME_OFFSETS_MS)}

InitCalc ==
    /\ RaceIdle
    /\ fpc = "calc"
    /\ fin \in [day : 0..MaxDay, ms : MsSamples, offset_ms : OffsetSamples]
    /\ fout = << >>

CalcTargetTime ==
    /\ fpc = "calc"
    /\ fout' = calc_target_time(fin.day * DayMs + fin.ms, fin.offset_ms)
    /\ fpc' = "calc_done"
    /\ UNCHANGED <<fin, raceVars>>

NextCalc == CalcTargetTime

SpecCalc == InitCalc /\ [][NextCalc]_vars

\* ---- parse_apply_response under test ---------------------------------------
\* An apply payload is drawn by its parts: the code (or none), the data
\* key (absent, null or an object), the apply_result (or none), and whether
\* other fields come with them.
Absent == [t |-> "absent"]
DeadlineSample == "2026-03-01"
CodeSamples == {Absent, Null, I(0), I(1), I(100001), I(100003), S("0")}
ResultSamples == {Absent, Null, I(0), I(1), I(3), I(4), S("1")}
DataKinds == {"absent", "null", "object"}

Field(k, v) == IF v = Absent THEN << >> ELSE (k :> v)

ApplyInfo(in) ==
    Field("apply_result", in.result)
      @@ Field("deadline_format", IF in.extra THEN S(DeadlineSample) ELSE Absent)
      @@ Field("uid", IF in.extra THEN I(7) ELSE Absent)

ApplyPayload(in) ==
    Field("code", in.code)
      @@ (IF in.data = "object" THEN ("data" :> ApplyInfo(in))
          ELSE IF in.data = "null" THEN ("data" :> Null)
          ELSE << >>)
      @@ Field("msg", IF in.extra THEN S("ok") ELSE Absent)

InitApply ==
    /\ RaceIdle
    /\ fpc = "apply"
    /\ fin \in [code : CodeSamples, data : DataKinds, result : ResultSamples,
                 extra : BOOLEAN]
    /\ fout = << >>

ParseApply ==
    /\ fpc = "apply"
    /\ fout' = parse_apply_response(ApplyPayload(fin))
    /\ fpc' = "apply_done"
    /\ UNCHANGED <<fin, raceVars>>

NextApply == ParseApply

SpecApply == InitApply /\ [][NextApply]_vars

\* ---- parse_status_response and check_status under test ---------------------
\* A status payload is drawn by its parts, as an apply payload is;
\* check_status also meets a transport failure or a body that is not JSON.
StatusCodeSamples == {Absent, I(0), I(100004)}
PassSamples == {Absent, Null, I(1), I(2), I(4), S("4")}
ButtonSamples == {Absent, I(1), I(2), I(3), I(4)}
ResponseKinds == {"json", "transport", "badjson"}

StatusInfo(in) ==
    Field("is_pass", in.is_pass)
      @@ Field("button_state", in.button_state)
      @@ Field("deadline_format", IF in.extra THEN S(DeadlineSample) ELSE Absent)

StatusPayload(in) ==
    Field("code", in.code)
      @@ (IF in.data = "object" THEN ("data" :> StatusInfo(in))
          ELSE IF in.data = "null" THEN ("data" :> Null)
          ELSE << >>)
      @@ Field("msg", IF in.extra THEN S("ok") ELSE Absent)

StatusResponseOf(in) ==
    IF in.resp = "json" THEN [kind |-> "json", body |-> StatusPayload(in)]
    ELSE [kind |-> in.resp]

InitStatus ==
    /\ RaceIdle
    /\ fpc \in {"status", "check"}
    /\ fin \in [resp : ResponseKinds, code : StatusCodeSamples, data : DataKinds,
                 is_pass : PassSamples, button_state : ButtonSamples,
                 extra : BOOLEAN]
    /\ fpc = "status" => fin.resp = "json"
    /\ fout = << >>

ParseStatus ==
    /\ fpc = "status"
    /\ fout' = parse_status_response(StatusPayload(fin))
    /\ fpc' = "status_done"
    /\ UNCHANGED <<fin, raceVars>>

CheckStatus ==
    /\ fpc = "check"
    /\ fout' = check_status(StatusResponseOf(fin))
    /\ fpc' = "check_done"
    /\ UNCHANGED <<fin, raceVars>>

NextStatus == ParseStatus \/ CheckStatus

SpecStatus == InitStatus /\ [][NextStatus]_vars

\* ---- sync_ntp under test ---------------------------------------------------
\* The first n configured servers, and what each answers when asked: the
\* time, or an exception with a text, which may be empty (str(Exception())).
NtpTimes == {DayMs - EarlyMs}
ErrorTexts == {"timeout", "connection refused", ""}
NtpAnswers ==
    {[ok |-> TRUE, tx_time |-> t] : t \in NtpTimes}
      \cup {[ok |-> FALSE, text |-> e] : e \in ErrorTexts}

InitNtp ==
    /\ RaceIdle
    /\ fpc = "ntp"
    /\ \E n \in 0..MaxServers : \E a \in [1..n -> NtpAnswers] :
         fin = [servers |-> SubSeq(NTP_SERVERS, 1, n), answers |-> a]
    /\ fout = << >>

SyncNtp ==
    /\ fpc = "ntp"
    /\ fout' = sync_ntp(fin.servers, fin.answers)
    /\ fpc' = "ntp_done"
    /\ UNCHANGED <<fin, raceVars>>

NextNtp == SyncNtp

SpecNtp == InitNtp /\ [][NextNtp]_vars

\* C1: for every synced now and offset_ms >= 0, calc_target_time takes
\* today's midnight as the boundary exactly when now is less than 30 s past
\* it, tomorrow's midnight otherwise (at exactly 30 s too), and returns
\* target = boundary - offset_ms and deadline = boundary + 30 s.
C1_CalcTargetTime ==
    fpc = "calc_done" =>
        LET today    == fin.day * DayMs
            tomorrow == (fin.day + 1) * DayMs
            boundary == IF fin.ms < 30 * 1000 THEN today ELSE tomorrow
        IN  /\ fout.target = boundary - fin.offset_ms
            /\ fout.deadline = boundary + 30 * 1000

\* now exactly 30 s past midnight, with a positive offset: tomorrow's boundary
C1_Witness ==
    /\ fpc = "calc_done"
    /\ fin.ms = 30 * 1000
    /\ fin.offset_ms > 0
    /\ fout.target = (fin.day + 1) * DayMs - fin.offset_ms


\* ---- RealClock under test ----------------------------------------------------
\* Monotonic readings are counted in half microseconds, datetimes in
\* microseconds: timedelta(seconds=x) rounds x to the nearest microsecond,
\* halves to the even one.
timedelta(half_us) ==
    LET q == half_us \div 2
    IN  IF half_us % 2 = 0 THEN q
        ELSE IF q % 2 = 0 THEN q ELSE q + 1

RealClock(start_beijing, start_mono) ==
    [start_beijing |-> start_beijing, start_mono |-> start_mono]

\* synced_now adding the whole monotonic reading to the anchor
synced_now_unanchored(self, mono) == self.start_beijing + timedelta(mono)

\* lines 71-72; mono is what time.monotonic() reads at the call
synced_now(self, mono) ==
    self.start_beijing + timedelta(mono - self.start_mono)

\* lines 68-69
monotonic(self, mono) == mono

\* The clock is anchored on a datetime (microseconds since a Beijing
\* midnight: the midnight itself, or two microseconds short of its first
\* second) and on the monotonic reading taken at that moment.
AnchorSamples == {0, MsPerSec * MsPerSec - 2}
MonoStarts == 0..2
SleepSamples == 1..2

\* fout: the monotonic time, the last two values of synced_now and the
\* reading at the last call, the last value of monotonic(), and the
\* network queries the clock has made
InitClock ==
    /\ RaceIdle
    /\ fpc = "clock"
    /\ \E b \in AnchorSamples, m \in MonoStarts :
         /\ fin = RealClock(b, m)
         /\ fout = [mono |-> m, prev |-> Null, last |-> Null, at |-> Null,
                    read |-> Null, queries |-> 0]

\* time passes
ClockAdvance ==
    /\ fpc = "clock"
    /\ fout.mono < MaxMono
    /\ fout' = [fout EXCEPT !.mono = @ + 1]
    /\ UNCHANGED <<fpc, fin, raceVars>>

ClockSyncedNow ==
    /\ fpc = "clock"
    /\ fout' = [fout EXCEPT !.prev = fout.last,
                            !.last = I(synced_now(fin, fout.mono)),
                            !.at = I(fout.mono)]
    /\ UNCHANGED <<fpc, fin, raceVars>>

ClockMonotonic ==
    /\ fpc = "clock"
    /\ fout' = [fout EXCEPT !.read = I(monotonic(fin, fout.mono))]
    /\ UNCHANGED <<fpc, fin, raceVars>>

\* lines 74-75: asyncio.sleep(seconds) returns once that long has passed
ClockSleep ==
    /\ fpc = "clock"
    /\ \E seconds \in SleepSamples :
         /\ fout.mono + seconds <= MaxMono
         /\ fout' = [fout EXCEPT !.mono = @ + seconds]
    /\ UNCHANGED <<fpc, fin, raceVars>>

NextClock ==
    \/ ClockAdvance
    \/ ClockSyncedNow
    \/ ClockMonotonic
    \/ ClockSleep

SpecClock == InitClock /\ [][NextClock]_vars

\* ---- _collect_cookie under test (config.py) ----------------------------------
\* A string is a sequence of characters, here blanks and other characters.
MinTokenLen == 20
max_attempts == 3

RECURSIVE lstrip(_)
lstrip(str) ==
    IF str # << >> /\ Head(str) = " " THEN lstrip(Tail(str)) ELSE str
RECURSIVE rstrip(_)
rstrip(str) ==
    IF str # << >> /\ str[Len(str)] = " "
    THEN rstrip(SubSeq(str, 1, Len(str) - 1)) ELSE str
\* str.strip()
strip(str) == rstrip(lstrip(str))

\* config.py 31-33
validate_token(token) == token # << >> /\ Len(token) >= MinTokenLen

Interrupt == [t |-> "KeyboardInterrupt"]
TooMany(cookie_name) ==
    <<"Too many invalid attempts", " for ", cookie_name,
      ". Run ", "mi-unlock setup", " to try again.">>

\* one pass of the loop of lines 145-158 validating the value as entered
collect_pass_unstripped(attempt, answer, browser_key, cookie_name) ==
    IF answer = Interrupt THEN Raise(<<"Abort">>)
    ELSE IF validate_token(answer) THEN Return(<<browser_key, strip(answer)>>)
    ELSE IF attempt = max_attempts THEN Raise(TooMany(cookie_name))
    ELSE Null

\* One pass of the loop of lines 145-158, and lines 159-161 after the last:
\* what Prompt.ask gave, then the return, the raise, or Null to go on.
collect_pass(attempt, answer, browser_key, cookie_name) ==
    IF answer = Interrupt THEN Raise(<<"Abort">>)
    ELSE LET value == strip(answer)
         IN  IF validate_token(value) THEN Return(<<browser_key, value>>)
             ELSE IF attempt = max_attempts THEN Raise(TooMany(cookie_name))
             ELSE Null

\* What the user may enter: blanks, a run of characters (none, one too few
\* or just enough), blanks; or two runs with a blank between them.
Blanks(n) == [i \in 1..n |-> " "]
Chars(n) == [i \in 1..n |-> "x"]
PadSamples == {0, MaxPad}
TokenLens == {0, MinTokenLen - 1, MinTokenLen}
Entered ==
    {Blanks(a) \o Chars(k) \o Blanks(b) :
        a \in PadSamples, k \in TokenLens, b \in PadSamples}
    \cup {Chars(MinTokenLen \div 2) \o Blanks(1) \o Chars(MinTokenLen \div 2)}

InitCollect ==
    /\ RaceIdle
    /\ fpc = "collect"
    /\ fin = [cookie_name |-> "popRunToken", browser_key |-> "firefox"]
    /\ fout = [attempt |-> 0, asked |-> << >>, out |-> Null]

CollectPass(answer) ==
    /\ fpc = "collect"
    /\ LET attempt == fout.attempt + 1
           out == collect_pass(attempt, answer, fin.browser_key, fin.cookie_name)
       IN  /\ fout' = [attempt |-> attempt, asked |-> Append(fout.asked, answer),
                       out |-> out]
           /\ fpc' = IF out = Null THEN "collect" ELSE "collect_done"
    /\ UNCHANGED <<fin, raceVars>>

\* Prompt.ask returns what was typed
CollectEntered == \E answer \in Entered : CollectPass(answer)

\* Prompt.ask is interrupted
CollectInterrupted == CollectPass(Interrupt)

NextCollect ==
    \/ CollectEntered
    \/ CollectInterrupted

SpecCollect == InitCollect /\ [][NextCollect]_vars

\* ---- the race: what the claims speak of --------------------------------------
Waiting == {"init", "coarse", "spin"}
IsDone(w) == wk[w].pc = "done"
IsStopped(res) ==
    /\ res.approved = "None"
    /\ Contains(res.message, "Stopped (another worker succeeded)")
IsTimedOut(res) == res.approved = "False" /\ Contains(res.message, "Timed out")
\* worker w issues an apply request in this step
Fires(w) == wk'[w].posts > wk[w].posts

\* C2: every apply request is issued at a synced time t with
\* target <= t < deadline and with the stop signal unset at that moment; a
\* worker that finds the stop signal set while it waits issues no request.
C2_FireInWindow ==
    [][\A w \in DOMAIN wk :
         /\ Fires(w) =>
              /\ wk'[w].posts = wk[w].posts + 1
              /\ wk'[w].target <= now /\ now < wk'[w].deadline
              /\ now' = now
              /\ ~stop /\ ~stop'
         /\ (stop /\ wk[w].pc \in Waiting) =>
              /\ wk'[w].posts = 0
              /\ wk'[w].pc \in Waiting \cup {"done"}]_vars

\* a worker has a request in flight, issued exactly at its target, while a
\* sibling that woke with the stop signal set has returned without a request
C2_Witness ==
    \E w, v \in DOMAIN wk :
        /\ wk[w].pc = "post" /\ now = wk[w].target
        /\ IsDone(v) /\ wk[v].entry = "stopped" /\ wk[v].posts = 0

\* C3: whenever a worker has returned an Approved result, from an apply
\* response or from the verification, the stop signal is set.
C3_ApprovedSetsStop ==
    /\ \A w \in DOMAIN wk :
         (IsDone(w) /\ wk[w].result.approved = "True") => stop
    /\ \A i \in DOMAIN results : results[i].approved = "True" => stop

\* one worker approved by an apply response, another by the verification
C3_Witness ==
    \E w, v \in DOMAIN wk :
        /\ IsDone(w) /\ wk[w].last = "approved" /\ wk[w].result.approved = "True"
        /\ IsDone(v) /\ wk[v].last = "ineligible" /\ wk[v].result.approved = "True"

\* C4: the stop signal only goes from unset to set: no step clears it, and
\* a second set leaves it set.
C4_StopSetOnce == [][stop => stop']_vars

\* the stop signal is set and two workers have each set it
C4_Witness ==
    /\ stop
    /\ \E w, v \in DOMAIN wk :
         /\ w # v
         /\ IsDone(w) /\ wk[w].result.approved = "True"
         /\ IsDone(v) /\ wk[v].result.approved = "True"

\* C5: a worker whose apply attempts met k >= 0 non-terminal outcomes
\* (100001, transport failure, unparsable body) and then an Approved
\* response returns Approved with attempts = k + 1, and the stop signal is set.
C5_RetriesThenApproved ==
    \A w \in DOMAIN wk :
        (IsDone(w) /\ wk[w].last = "approved" /\ wk[w].gets = 0) =>
            /\ wk[w].result.approved = "True"
            /\ wk[w].result.attempts = wk[w].fails + 1
            /\ wk[w].posts = wk[w].fails + 1
            /\ wk[w].result.worker_id = w
            /\ stop

\* approved on the second attempt, after one non-terminal outcome
C5_Witness ==
    \E w \in DOMAIN wk :
        /\ IsDone(w) /\ wk[w].last = "approved" /\ wk[w].gets = 0
        /\ wk[w].fails = 1 /\ wk[w].result.attempts = 2

\* C6: a worker that reaches the retry loop with now >= deadline and the
\* stop signal unset returns Rejected, "timed out", attempts = 0, and has
\* issued no request.
C6_LateEntryTimesOut ==
    \A w \in DOMAIN wk :
        wk[w].entry = "late" =>
            /\ IsDone(w)
            /\ IsTimedOut(wk[w].result)
            /\ wk[w].result.attempts = 0
            /\ wk[w].posts = 0 /\ wk[w].gets = 0

C6_Witness ==
    \E w \in DOMAIN wk : wk[w].entry = "late" /\ now >= wk[w].deadline /\ ~stop

\* C7: on a Rejected verdict (quota reached, blocked, unexpected response)
\* the worker returns a Rejected result at once, issues no further request
\* and leaves the stop signal as it was.
C7_RejectedIsTerminal ==
    [][\A w \in DOMAIN wk :
         /\ (wk[w].pc = "post" /\ wk'[w].last = "rejected") =>
              /\ wk'[w].pc = "done"
              /\ wk'[w].result.approved = "False"
              /\ wk'[w].result.attempts = wk[w].attempt
              /\ \/ Contains(wk'[w].result.message, "Quota")
                 \/ Contains(wk'[w].result.message, "Blocked")
                 \/ Contains(wk'[w].result.message, "Unexpected response")
              /\ wk'[w].posts = wk[w].posts /\ wk'[w].gets = wk[w].gets
              /\ stop' = stop
         /\ (wk[w].pc = "done" /\ wk[w].last = "rejected") => wk'[w] = wk[w]]_vars

\* a worker was rejected, the stop signal is unset and a sibling has a
\* request in flight
C7_Witness ==
    \E w, v \in DOMAIN wk :
        /\ IsDone(w) /\ wk[w].last = "rejected" /\ wk[w].result.approved = "False"
        /\ ~stop
        /\ wk[v].pc = "post"

\* the status payload says "already approved" (is_pass = 1, token not expired)
AlreadyApproved(sdata) ==
    /\ Get(sdata, "code", Null) # I(100004)
    /\ Get(Get(sdata, "data", EmptyDict), "is_pass", Null) = I(1)

\* C8: after an Uncertain verdict (100003) the worker issues an eligibility
\* check; if it reports the account ineligible the worker terminates,
\* Approved with the stop signal set when the status is "already approved",
\* and otherwise not approved with the stop signal left as it was.
C8_VerifyIneligible ==
    [][\A w \in DOMAIN wk :
         /\ (wk[w].pc = "post" /\ wk'[w].last = "uncertain") =>
              /\ wk'[w].pc = "get" /\ wk'[w].gets = wk[w].gets + 1
              /\ wk'[w].posts = wk[w].posts
         /\ (wk[w].pc = "get" /\ wk'[w].last = "ineligible") =>
              /\ wk'[w].pc = "done"
              /\ wk'[w].result.attempts = wk[w].attempt
              /\ IF AlreadyApproved(wk'[w].sdata)
                 THEN wk'[w].result.approved = "True" /\ stop'
                 ELSE wk'[w].result.approved = "None" /\ stop' = stop]_vars

\* a verification ended a worker without approval and the stop signal is unset
C8_Witness ==
    \E w \in DOMAIN wk :
        /\ IsDone(w) /\ wk[w].last = "ineligible"
        /\ ~AlreadyApproved(wk[w].sdata)
        /\ wk[w].result.approved = "None"
        /\ ~stop

\* C9: if the eligibility check after an Uncertain verdict reports the
\* account still eligible, the worker returns nothing and goes back to the
\* loop condition: it fires again when the deadline and the stop signal
\* allow, and otherwise ends Stopped or timed out.  An Uncertain verdict
\* alone never ends the worker.
C9_StillEligibleLoops ==
    [][\A w \in DOMAIN wk :
         /\ (wk[w].pc = "post" /\ wk'[w].last = "uncertain") =>
              wk'[w].pc = "get" /\ wk'[w].result = NoResult
         /\ (wk[w].pc = "get" /\ wk'[w].last = "eligible") =>
              wk'[w].pc = "retry" /\ wk'[w].result = NoResult /\ stop' = stop
         /\ (wk[w].pc = "retry" /\ wk[w].last = "eligible" /\ wk'[w] # wk[w]) =>
              IF now < wk[w].deadline /\ ~stop
              THEN wk'[w].pc = "post" /\ wk'[w].attempt = wk[w].attempt + 1
              ELSE /\ wk'[w].pc = "done"
                   /\ wk'[w].result.attempts = wk[w].attempt
                   /\ IF stop THEN IsStopped(wk'[w].result)
                      ELSE IsTimedOut(wk'[w].result)]_vars

\* after a still-eligible verification the worker has fired a second time
C9_Witness ==
    \E w \in DOMAIN wk :
        wk[w].pc = "post" /\ wk[w].gets = 1 /\ wk[w].fails = 0 /\ wk[w].attempt = 2

\* C10: a transport failure or an unparsable body, of the apply request or
\* of the verification request, never ends the worker by itself: the worker
\* sleeps and goes back to the loop condition, where it fires again, or
\* ends timed out (deadline reached) or Stopped (stop signal set).
C10_FailuresAreRetried ==
    [][\A w \in DOMAIN wk :
         /\ (wk[w].pc = "post" /\ wk'[w].last = "failure") =>
              wk'[w].pc = "retry" /\ wk'[w].result = NoResult /\ stop' = stop
         /\ (wk[w].pc = "get" /\ wk'[w].last = "verify_failure") =>
              wk'[w].pc = "retry" /\ wk'[w].result = NoResult /\ stop' = stop
         /\ (/\ wk[w].pc = "retry"
             /\ wk[w].last \in {"failure", "verify_failure"}
             /\ wk'[w] # wk[w]) =>
              IF now < wk[w].deadline /\ ~stop
              THEN wk'[w].pc = "post" /\ wk'[w].attempt = wk[w].attempt + 1
              ELSE /\ wk'[w].pc = "done"
                   /\ wk'[w].result.attempts = wk[w].attempt
                   /\ IF stop THEN IsStopped(wk'[w].result)
                      ELSE IsTimedOut(wk'[w].result)]_vars

\* a worker whose only attempt failed has timed out
C10_Witness ==
    \E w \in DOMAIN wk :
        /\ IsDone(w) /\ wk[w].fails = 1 /\ wk[w].posts = 1 /\ wk[w].gets = 0
        /\ IsTimedOut(wk[w].result) /\ wk[w].result.attempts = 1

\* C11: no failure inside one worker (any payload it can receive, null or
\* missing nested data included, any transport error, any rejection) aborts
\* its siblings or the coordinator: no worker raises, run_workers never
\* raises, and when it returns it returns one result per worker.
C11_WorkerFailuresAbsorbed ==
    /\ \A w \in DOMAIN wk : wk[w].pc # "crashed"
    /\ main # "raised"
    /\ main = "returned" => Len(results) = Len(wk)

\* C12: run_workers called with an offsets list whose length is not 4 fails
\* fast: no worker is dispatched, no request is sent and nothing is returned.
C12_OffsetCountValidated ==
    Len(offsets) # 4 =>
        /\ Len(wk) = 0
        /\ main \notin {"gathering", "returned"}
        /\ results = << >>

\* C13: run_workers dispatches exactly four workers with ids 1..4, worker i
\* with offsets[i] (the i-th offset) and with the two credentials in the
\* alternating pattern A, B, A, B.
C13_FourWorkersPaired ==
    main # "called" =>
        /\ DOMAIN wk = 1..4
        /\ \A i \in DOMAIN wk :
             /\ wk[i].wid = i
             /\ i \in DOMAIN offsets /\ wk[i].offset_ms = offsets[i]
             /\ wk[i].token = tokens[IF i % 2 = 1 THEN 1 ELSE 2]

\* the deviceId field of a Cookie header
DeviceIdOf(cookie) == cookie[8]

\* C14: within one race two workers use the same device identity if and
\* only if they use the same credential value, and every request of a
\* worker, apply or verification, carries that worker's one identity.
C14_IdentityPerCredential ==
    /\ \A w, v \in DOMAIN wk :
         (wk[w].dev = wk[v].dev) <=> (wk[w].token = wk[v].token)
    /\ \A w \in DOMAIN wk : \A r, q \in wk[w].reqs :
         /\ DeviceIdOf(r.cookie) = wk[w].dev
         /\ DeviceIdOf(r.cookie) = DeviceIdOf(q.cookie)

\* C15: run_workers returns only after every dispatched worker has
\* returned, and the list it returns holds one result per worker in worker
\* order (results[i] is worker i's), whatever order they finished in.
C15_ReturnsAllInOrder ==
    main = "returned" =>
        /\ \A w \in DOMAIN wk : IsDone(w)
        /\ Len(results) = Len(wk)
        /\ \A i \in DOMAIN results :
             results[i] = wk[i].result /\ results[i].worker_id = i

\* run_workers has returned; worker 1 ended Stopped, so it returned after
\* the later worker whose approval set the stop signal
C15_Witness ==
    /\ main = "returned"
    /\ IsStopped(results[1])
    /\ \E k \in DOMAIN results : k > 1 /\ results[k].approved = "True"

\* C16: a worker that wakes from its coarse wait with the stop signal set
\* observes it before advancing: it returns Stopped at once, with no
\* request, without first spin-waiting until its target.
C16_StopSeenOnWaking ==
    [][\A w \in DOMAIN wk :
         (wk[w].pc = "coarse" /\ stop /\ wk'[w] # wk[w]) =>
              /\ wk'[w].pc = "done"
              /\ IsStopped(wk'[w].result)
              /\ wk'[w].posts = 0]_vars

\* the stop signal is set or the worker's deadline has passed
Cancelled(w) == stop \/ now >= wk[w].deadline

\* C17: a worker with a request in flight when the stop signal is set (or
\* the deadline passes) is not pre-empted: its next step is the response to
\* that request, from which it can still return Approved or Rejected, and
\* it ends Stopped or timed out only at its next loop check.
C17_NoPreemption ==
    [][\A w \in DOMAIN wk :
         /\ (wk[w].pc = "post" /\ Cancelled(w) /\ wk'[w] # wk[w]) =>
              /\ wk'[w].last \in {"failure", "retryable", "approved",
                                  "rejected", "uncertain", "AttributeError"}
              /\ wk'[w].posts = wk[w].posts
              /\ wk'[w].pc = "done" =>
                   /\ wk'[w].result.approved \in {"True", "False"}
                   /\ wk'[w].result.raw # EmptyDict
                   /\ ~IsTimedOut(wk'[w].result)
         /\ (wk[w].pc = "get" /\ Cancelled(w) /\ wk'[w] # wk[w]) =>
              /\ wk'[w].last \in {"verify_failure", "ineligible", "eligible"}
              /\ wk'[w].pc = "done" =>
                   ~IsStopped(wk'[w].result) /\ ~IsTimedOut(wk'[w].result)
         /\ (wk[w].pc = "retry" /\ Cancelled(w) /\ wk'[w] # wk[w]) =>
              /\ wk'[w].pc = "done"
              /\ IsStopped(wk'[w].result) \/ IsTimedOut(wk'[w].result)]_vars

\* two workers returned Approved from their apply responses: the second
\* response came when the first had already set the stop signal
C17_Witness ==
    \E w, v \in DOMAIN wk :
        /\ w # v
        /\ IsDone(w) /\ wk[w].last = "approved" /\ wk[w].result.raw # EmptyDict
        /\ IsDone(v) /\ wk[v].last = "approved" /\ wk[v].result.raw # EmptyDict

\* C18: in dry-run mode a worker still waits until its target, then
\* returns a result annotated as skipped, with attempts = 0 and approved =
\* None, having issued no request and without setting the stop signal.
C18_DryRunSkips ==
    dry_run =>
        /\ ~stop
        /\ \A w \in DOMAIN wk :
             /\ wk[w].posts = 0 /\ wk[w].gets = 0 /\ wk[w].reqs = {}
             /\ wk[w].pc \in Waiting \cup {"done"}
             /\ IsDone(w) =>
                  /\ now >= wk[w].target
                  /\ wk[w].result.approved = "None"
                  /\ wk[w].result.attempts = 0
                  /\ Contains(wk[w].result.message, "dry-run")
                  /\ Contains(wk[w].result.message, "Skipped")

\* a dry run of four workers that slept until their targets has returned
C18_Witness ==
    /\ dry_run
    /\ main = "returned"
    /\ Len(results) = 4
    /\ \A i \in DOMAIN results :
         results[i].attempts = 0 /\ Contains(results[i].message, "Skipped")
    /\ now > Boundary - EarlyMs

\* C19: the per-attempt observer has no effect on control flow: with any
\* observer, one that raises included, a worker at its loop check does what
\* it does with none: it issues the request when the deadline and the stop
\* signal allow and returns Stopped or timed out otherwise.
C19_ObserverHasNoEffect ==
    [][\A w \in DOMAIN wk :
         (wk[w].pc \in Waiting \cup {"retry"} /\ wk'[w] # wk[w]) =>
              /\ wk'[w].pc # "crashed"
              /\ wk'[w].attempt > wk[w].attempt =>
                   wk'[w].pc = "post" /\ Fires(w)]_vars

\* C20: parse_apply_response returns the Approved verdict if and only if
\* code = 0 and data.apply_result = 1: other fields, present or absent, do
\* not change it, and no other payload (apply_result = 1 with a missing or
\* different code, missing or null data) is approved.
C20_ApprovedIffCodeAndResult ==
    fpc = "apply_done" =>
        LET approved == fout.kind = "return" /\ fout.val.approved = "True"
        IN  /\ approved <=>
                 (fin.code = I(0) /\ fin.data = "object" /\ fin.result = I(1))
            /\ approved => fout.val.msg = <<"Approved!">>

\* code 0 and apply_result 1 among other fields: approved
C20_Witness ==
    /\ fpc = "apply_done"
    /\ fin.code = I(0) /\ fin.data = "object" /\ fin.result = I(1) /\ fin.extra
    /\ fout.kind = "return" /\ fout.val.approved = "True"

\* C21: parse_apply_response never raises on missing or null nested data:
\* for code 0 with data null or with no data key it returns the Rejected
\* verdict (approved = False, "Unexpected response").
C21_ApplyNullDataRejected ==
    (fpc = "apply_done" /\ fin.code = I(0) /\ fin.data \in {"null", "absent"}) =>
        /\ fout.kind = "return"
        /\ fout.val.approved = "False"
        /\ Contains(fout.val.msg, "Unexpected response")

\* C22: when the code is not the success code parse_apply_response
\* classifies by the code alone, whatever the data field holds: 100001
\* raises the retryable rejection (ValueError, no verdict), 100003 returns
\* the Uncertain verdict (approved = None).
C22_ApplyByCodeAlone ==
    fpc = "apply_done" =>
        /\ fin.code = I(100001) => fout = Raise("ValueError")
        /\ fin.code = I(100003) =>
             fout.kind = "return" /\ fout.val.approved = "None"

\* C23: for code 0 with apply_result 3 (4) parse_apply_response returns a
\* Rejected verdict whose message contains "quota" ("blocked"), and the
\* payload's deadline text when the payload has one.
C23_QuotaAndBlocked ==
    (/\ fpc = "apply_done"
     /\ fin.code = I(0) /\ fin.data = "object" /\ fin.result \in {I(3), I(4)}) =>
        /\ fout.kind = "return"
        /\ fout.val.approved = "False"
        /\ ContainsLower(fout.val.msg,
                         IF fin.result = I(3) THEN "quota" ELSE "blocked")
        /\ fin.extra => Contains(fout.val.msg, DeadlineSample)

\* a quota payload with a deadline was classified
C23_Witness ==
    /\ fpc = "apply_done"
    /\ fin.code = I(0) /\ fin.data = "object" /\ fin.result = I(3) /\ fin.extra
    /\ fout.kind = "return" /\ ContainsLower(fout.val.msg, "quota")
    /\ Contains(fout.val.msg, DeadlineSample)

\* C24: parse_status_response returns ineligible with a message containing
\* "expired" for every payload whose code is 100004, whatever the nested
\* data holds (data that would otherwise be eligible, null or missing data).
C24_ExpiredTokenFirst ==
    (fpc = "status_done" /\ fin.code = I(100004)) =>
        /\ fout.kind = "return"
        /\ ~fout.val.eligible
        /\ Contains(fout.val.message, "expired")

\* code 100004 over data that alone is eligible, and over null data
C24_Witness ==
    /\ fpc = "status_done" /\ fin.code = I(100004)
    /\ \/ fin.data = "object" /\ fin.is_pass = I(4) /\ fin.button_state = I(1)
       \/ fin.data = "null"
    /\ fout.kind = "return" /\ ~fout.val.eligible

\* C25: for payloads whose code is not 100004 parse_status_response returns
\* eligible = True if and only if data.is_pass = 4 and data.button_state is
\* 1, 2 or 3; is_pass = 1 gives ineligible "Already approved"; every other
\* combination gives ineligible "Unknown status" with the raw is_pass and
\* button_state values in the message.
C25_EligibleIff ==
    (fpc = "status_done" /\ fin.code # I(100004)) =>
        LET has == fin.data = "object"
            is_pass == IF has /\ fin.is_pass # Absent THEN fin.is_pass ELSE Null
            btn == IF has /\ fin.button_state # Absent
                   THEN fin.button_state ELSE Null
        IN  /\ fout.kind = "return"
            /\ fout.val.eligible <=> (is_pass = I(4) /\ btn \in {I(1), I(2), I(3)})
            /\ is_pass = I(1) =>
                 ~fout.val.eligible /\ Contains(fout.val.message, "Already approved")
            /\ (is_pass # I(1) /\ ~fout.val.eligible) =>
                 /\ Contains(fout.val.message, "Unknown status")
                 /\ Contains(fout.val.message, Fmt(is_pass))
                 /\ Contains(fout.val.message, Fmt(btn))

\* C26: parse_status_response and check_status never raise on absent or
\* null nested data: for code 0 with data null or with no data key they
\* return an ineligible StatusResult, the "unknown status" outcome.
C26_StatusNullDataUnknown ==
    (/\ fpc \in {"status_done", "check_done"} /\ fin.resp = "json"
     /\ fin.code = I(0) /\ fin.data \in {"null", "absent"}) =>
        /\ fout.kind = "return"
        /\ ~fout.val.eligible
        /\ ContainsLower(fout.val.message, "unknown status")

\* the servers that answer, by their place in the list
Answering == {k \in DOMAIN fin.answers : fin.answers[k].ok}
FirstAnswering == CHOOSE k \in Answering : \A j \in Answering : k <= j

\* C27: sync_ntp asks the servers in list order and returns success with
\* the first server that answers, naming it; the servers after it are
\* never asked, and earlier failures do not make the result a failure.
C27_FirstAnswerWins ==
    (fpc = "ntp_done" /\ Answering # {}) =>
        /\ fout.result.success
        /\ fout.result.server = fin.servers[FirstAnswering]
        /\ fout.result.beijing_time.instant = fin.answers[FirstAnswering].tx_time
        /\ fout.queried = SubSeq(fin.servers, 1, FirstAnswering)

\* the first server failed, the second answered, the third would have
C27_Witness ==
    /\ fpc = "ntp_done"
    /\ Len(fin.servers) = 3
    /\ Answering = {2, 3}
    /\ fout.result.success /\ fout.result.server = fin.servers[2]
    /\ Len(fout.queried) = 2

\* C28: if every server fails sync_ntp returns success = False with the
\* error of the last server tried; with an empty list it returns
\* success = False with the error "No NTP servers configured".
C28_AllFailLastError ==
    (fpc = "ntp_done" /\ Answering = {}) =>
        /\ ~fout.result.success
        /\ fout.queried = fin.servers
        /\ fout.result.error =
             IF Len(fin.servers) = 0 THEN "No NTP servers configured"
             ELSE fin.answers[Len(fin.servers)].text

\* three servers failed, the first and the last with different errors
C28_Witness ==
    /\ fpc = "ntp_done"
    /\ Len(fin.servers) = 3 /\ Answering = {}
    /\ fin.answers[1].text = "timeout"
    /\ fin.answers[3].text = "connection refused"
    /\ ~fout.result.success /\ fout.result.error = "connection refused"

\* C29: every NtpResult of sync_ntp has exactly one of timestamp and error:
\* success = True with beijing_time set and error empty, or success = False
\* with no beijing_time and a non-empty error, whatever the failure texts.
C29_TimestampXorError ==
    fpc = "ntp_done" =>
        IF fout.result.success
        THEN fout.result.beijing_time # Null /\ fout.result.error = ""
        ELSE fout.result.beijing_time = Null /\ fout.result.error # ""

\* some configured time source answered the run command
RunSynced == \E i \in DOMAIN fin.ntp : fin.ntp[i].ok

\* C30: in the run command no worker is dispatched and no apply request is
\* sent unless the NTP sync succeeded; when every server fails the run
\* exits with status 1 before the clock is anchored and before any worker
\* starts.
C30_NoRaceWithoutSync ==
    /\ (main # "idle" \/ wk # << >> \/ Sent > 0) => RunSynced /\ fout.anchored
    /\ ~RunSynced =>
          /\ fpc \in {"run", "run_status", "run_ntp", "exited"}
          /\ ~fout.anchored /\ now = 0
          /\ fpc = "exited" => fout.exit = I(1)

\* tokens loaded, the account eligible, every NTP server failed: exit 1
\* with no clock and no worker
C30_Witness ==
    /\ fpc = "exited"
    /\ fin.tokenfile = "ok" /\ ~fin.dry_run
    /\ check_status(fin.status).kind = "return"
    /\ check_status(fin.status).val.eligible
    /\ ~RunSynced
    /\ fout.exit = I(1) /\ ~fout.anchored
    /\ main = "idle" /\ wk = << >>

\* C31: synced_now() equals the anchor timestamp plus the monotonic time
\* elapsed since the anchor reading (to the microsecond of a datetime), for
\* the anchor pair fixed at construction; it never decreases as the
\* monotonic clock advances, and no clock operation queries the network.
C31_SyncedNowFromAnchor ==
    fpc = "clock" =>
        /\ fout.last # Null =>
              fout.last = I(fin.start_beijing
                            + timedelta(fout.at.v - fin.start_mono))
        /\ (fout.prev # Null /\ fout.last # Null) => fout.prev.v <= fout.last.v
        /\ fout.queries = 0

\* two calls a microsecond and a half apart, on a clock anchored at a
\* non-zero monotonic reading
C31_Witness ==
    /\ fpc = "clock"
    /\ fin.start_mono = 2
    /\ fout.prev # Null /\ fout.last # Null
    /\ fout.last.v = fout.prev.v + 2
    /\ fout.at.v = fin.start_mono + 3

\* the same answer a served with the statuses c and d is handled alike
SameHandling(s, a, c, d) ==
    /\ s.pc = "post" /\ a \in ApplyResponses =>
          OnApplyResponse(s, Served(a, c)) = OnApplyResponse(s, Served(a, d))
    /\ s.pc = "get" /\ a \in StatusResponses =>
          OnStatusResponse(s, Served(a, c)) = OnStatusResponse(s, Served(a, d))

\* C32: what a worker does with a response depends on its JSON payload
\* only, not on the HTTP status: served with an error status, a payload
\* leads to the same verdict, result and stop-signal effect as with 200.
C32_HttpStatusIgnored ==
    \A w \in Workers :
        wk[w].pc \in {"post", "get"} =>
            \A a \in ApplyResponses \cup StatusResponses :
                \A c \in HttpStatuses : SameHandling(wk[w], a, 200, c)

\* a worker approved by a payload that came with the status 500
C32_Witness ==
    \E w \in Workers :
        /\ wk[w].http = I(500)
        /\ wk[w].pc = "done"
        /\ wk[w].attempt = 1
        /\ wk[w].result.approved = "True"
        /\ wk[w].result.message = <<"Approved!">>
        /\ stop

\* an entered value that passes once its surrounding blanks are removed
ValidEntry(answer) ==
    /\ answer # Interrupt
    /\ LET inner == {i \in 1..Len(answer) : answer[i] # " "}
       IN  /\ inner # {}
           /\ (CHOOSE j \in inner : \A i \in inner : i <= j)
                 - (CHOOSE j \in inner : \A i \in inner : j <= i) + 1 >= MinTokenLen

AllInvalid(asked) ==
    \A i \in 1..Len(asked) : asked[i] # Interrupt /\ ~ValidEntry(asked[i])

\* C33: _collect_cookie prompts at most three times; it returns the first
\* entered value that passes validate_token once stripped, without
\* prompting again, and raises "Too many invalid attempts" after exactly
\* three invalid values.
C33_ThreePrompts ==
    LET asked == fout.asked
        n == Len(asked)
    IN  /\ n <= 3
        /\ fpc = "collect" => AllInvalid(asked)
        /\ fpc = "collect_done" =>
              /\ AllInvalid(SubSeq(asked, 1, n - 1))
              /\ ValidEntry(asked[n]) <=>
                    (asked[n] # Interrupt
                       /\ fout.out = Return(<<fin.browser_key, strip(asked[n])>>))
              /\ (n = 3 /\ AllInvalid(asked)) <=>
                    (fout.out.kind = "raise"
                       /\ fout.out.exc[1] = "Too many invalid attempts")

\* the third value entered is the first to pass, and comes back stripped;
\* the second has twenty characters only with its blanks
C33_Witness ==
    /\ fpc = "collect_done"
    /\ Len(fout.asked) = 3
    /\ fout.asked[1] = << >>
    /\ fout.asked[2] = Chars(MinTokenLen - 1) \o Blanks(MaxPad)
    /\ fout.asked[3] = Blanks(MaxPad) \o Chars(MinTokenLen) \o Blanks(MaxPad)
    /\ fout.out = Return(<<"firefox", Chars(MinTokenLen)>>)

\* C34: provided synced time advances across every sleep and every request,
\* every worker eventually ends and returns exactly one result, whatever
\* responses it receives: past the deadline the retry loop cannot go on.
C34_EveryWorkerReturns ==
    <>(/\ main # "called"
       /\ \A w \in Workers : IsDone(w) /\ wk[w].result # NoResult)

\* C35: when the countdown of the run command precedes the workers, each
\* worker's first apply request is issued offset_ms before the midnight
\* counted down to (1400, 900, 400 and 100 ms before it), not at or after
\* it and not all at the same instant.
C35_FiresBeforeMidnightAfterCountdown ==
    [][\A w \in DOMAIN wk :
         (fpc = "run_race" /\ fout.countdown /\ Fires(w) /\ wk[w].posts = 0) =>
              /\ now = fout.midnight - TIME_OFFSETS_MS[w]
              /\ now < fout.midnight]_vars

\* C36: in every terminal result attempts is the number of apply requests
\* the worker issued, failed and rejected ones included; the observer is
\* called once right before each apply request, with the worker's id and
\* the attempt numbers 1, 2, 3, ... in order.
C36_AttemptsCountRequests ==
    \A w \in Workers :
        LET calls == wk[w].calls
            raised == wk[w].pc = "crashed" /\ wk[w].last = "ObserverError"
        IN  /\ IsDone(w) => wk[w].result.attempts = wk[w].posts
            /\ on_attempt = "None" => calls = << >>
            /\ on_attempt # "None" =>
                  /\ \A i \in 1..Len(calls) : calls[i] = <<w, i>>
                  /\ Len(calls) = wk[w].posts + (IF raised THEN 1 ELSE 0)

\* a worker that returned after two requests, the first of which failed,
\* its observer called for each
C36_Witness ==
    \E w \in Workers :
        /\ on_attempt = "returns"
        /\ IsDone(w)
        /\ wk[w].fails = 1
        /\ wk[w].posts = 2 /\ wk[w].result.attempts = 2
        /\ wk[w].calls = <<(<<w, 1>>), (<<w, 2>>)>>

\* C37: in a race run by run_workers the stop signal is set only by a
\* worker that returns Approved, so whenever a result of the returned list
\* is "Stopped (another worker succeeded)" another result of that list is
\* Approved.
C37_StoppedOnlyAfterApproval ==
    /\ stop => \E w \in Workers :
                  IsDone(w) /\ wk[w].result.approved = "True"
    /\ main = "returned" =>
          \A i \in DOMAIN results :
              IsStopped(results[i]) =>
                  \E j \in DOMAIN results \ {i} : results[j].approved = "True"

\* the returned list holds a worker stopped after the first worker was
\* approved by the status check that followed its uncertain answer
C37_Witness ==
    /\ main = "returned"
    /\ results[1].approved = "True" /\ wk[1].last = "ineligible"
    /\ \E i \in DOMAIN results : i > 1 /\ IsStopped(results[i])

\* C38: a worker that leaves its retry loop with the stop signal set and
\* the deadline passed reports Stopped (approved None), not "timed out";
\* it reports "timed out" (approved False) only when the stop signal is
\* unset at that moment.
C38_StoppedBeforeTimedOut ==
    \A w \in Workers :
        (IsDone(w) /\ wk[w].left # Null) =>
            /\ wk[w].left.stop => IsStopped(wk[w].result)
            /\ ~wk[w].left.stop =>
                  IsTimedOut(wk[w].result) /\ wk[w].left.late
            /\ IsTimedOut(wk[w].result) => ~wk[w].left.stop

\* a worker slept past the deadline while another was approved: it left
\* the loop with both conditions true and reported Stopped
C38_Witness ==
    \E w \in Workers :
        /\ IsDone(w)
        /\ wk[w].left = [stop |-> TRUE, late |-> TRUE]
        /\ wk[w].result.attempts >= 1
        /\ IsStopped(wk[w].result)

\* C39: for every synced now and every offset_ms >= 0 calc_target_time
\* returns a deadline strictly later than now, with deadline - target =
\* 30 s + offset_ms: the retry window is never closed already when target
\* and deadline are computed.
C39_DeadlineAfterNow ==
    fpc = "calc_done" =>
        LET cur == fin.day * DayMs + fin.ms
        IN  /\ fout.deadline > cur
            /\ fout.deadline - fout.target = 30 * 1000 + fin.offset_ms

\* now one millisecond short of 30 s past midnight: the deadline is the
\* next millisecond
C39_Witness ==
    /\ fpc = "calc_done"
    /\ fin.ms = 30 * 1000 - 1
    /\ fin.offset_ms = 1400
    /\ fout.deadline = fin.day * DayMs + fin.ms + 1

\* C40: once workers have been dispatched, the run command exits with
\* status 0 if and only if at least one worker's result is Approved; any
\* other combination of outcomes exits with status 1.
C40_ExitZeroIffApproved ==
    (fpc = "exited" /\ Len(wk) > 0) =>
        (fout.exit = I(0) <=>
            \E w \in Workers : IsDone(w) /\ wk[w].result.approved = "True")

=============================================================================
